---- MODULE Spec2Model ----
(***************************************************************************)
(* The kanban board of src/app/page.tsx (component KanbanBoard): the React *)
(* state of the component and one action per event handler.                *)
(*                                                                         *)
(* Texts (titles, drafts) are sequences of one-character strings, ids are  *)
(* sequences of decimal digits, so that trim() and toString() are computed *)
(* and not assumed.  A value of type  T | null  is <<>> (null) or <<v>>.   *)
(***************************************************************************)
EXTENDS Integers, Sequences, FiniteSets, TLC

VARIABLES columns, draggedTask, newTaskInputs, showInputFor, selectedTaskId,
          now, steps, lastEvent, dropped, deleted

\* The React state of the component (lines 63-72).  now is the last value
\* read from the clock.  The others record the past: steps is the number of
\* events so far, lastEvent the name of the last one, dropped the payload the
\* last event found when it was a drop, deleted the ids that a delete-task
\* took off the board.
state == <<columns, draggedTask, newTaskInputs, showInputFor, selectedTaskId>>

vars == <<columns, draggedTask, newTaskInputs, showInputFor, selectedTaskId,
          now, steps, lastEvent, dropped, deleted>>

-----------------------------------------------------------------------------
(* Bounds of the model *)

\* Number of events a behaviour of Spec holds.
MaxSteps == 4

\* Number of events a behaviour of SpecForm holds.
MaxFormSteps == 6

\* Number of events a behaviour of SpecHandlers holds.
MaxHandlerSteps == 3

\* Number of events a behaviour of SpecKeyboard holds.
MaxKeyboardSteps == 3

\* Date.now() at the time the page is loaded, in milliseconds: a timestamp is
\* greater than the seeded ids 1..5.
ClockStart == 10

\* Milliseconds that pass, at most, while the page is used.
MaxElapsed == 1

-----------------------------------------------------------------------------
(* Values *)

None == <<>>

Some(v) == <<v>>

\* Characters String.prototype.trim() strips (the ones the model types).
WhiteSpace == {" ", "\t"}

\* The texts the user types into an add-task input (e.target.value).
DraftTexts ==
  { <<>>, <<" ">>, <<"a">>, <<" ", "a", "\t">>, <<"a", " ", "b">> }

\* String.prototype.trim(): strips whitespace at both ends.
RECURSIVE TrimStart(_)
TrimStart(s) ==
  IF s = <<>> THEN s
  ELSE IF Head(s) \in WhiteSpace THEN TrimStart(Tail(s)) ELSE s

RECURSIVE TrimEnd(_)
TrimEnd(s) ==
  IF s = <<>> THEN s
  ELSE IF s[Len(s)] \in WhiteSpace THEN TrimEnd(SubSeq(s, 1, Len(s) - 1)) ELSE s

\* Mutant of Trim: strips the start only.
TrimLeading(s) == TrimStart(s)

Trim(s) == TrimEnd(TrimStart(s))

\* Number.prototype.toString(): the decimal digits of n >= 0.
RECURSIVE NumberToString(_)
NumberToString(n) ==
  IF n < 10 THEN <<n>> ELSE NumberToString(n \div 10) \o <<n % 10>>

\* tasks.filter((t) => t.id !== id)
RECURSIVE FilterOutId(_, _)
FilterOutId(tasks, id) ==
  IF tasks = <<>> THEN <<>>
  ELSE IF Head(tasks).id # id
       THEN <<Head(tasks)>> \o FilterOutId(Tail(tasks), id)
       ELSE FilterOutId(Tail(tasks), id)

\* cols.findIndex((col) => col.id === id): 0-based, -1 when there is none.
FindColumnIndex(cols, id) ==
  IF \E i \in 1..Len(cols) : cols[i].id = id
  THEN (CHOOSE i \in 1..Len(cols) :
          cols[i].id = id /\ \A j \in 1..(i - 1) : cols[j].id # id) - 1
  ELSE -1

\* { ...col, tasks }
WithTasks(col, tasks) == [col EXCEPT !.tasks = tasks]

-----------------------------------------------------------------------------
(* Initial state *)

\* The seeded titles are written with the first letter of each word
\* ("Research project requirements" is "R p r"), the icons as o0..o3.
Task(id, title, priority) == [id |-> id, title |-> title, priority |-> priority]

initialColumns ==
  << [id |-> "backlog", title |-> "Backlog", icon |-> "o0",
      tasks |-> << Task(<<1>>, <<"R", " ", "p", " ", "r">>, "low"),
                   Task(<<2>>, <<"C", " ", "w">>, "medium") >>],
     [id |-> "todo", title |-> "Todo", icon |-> "o1",
      tasks |-> << Task(<<3>>, <<"S", " ", "u", " ", "a", " ", "f">>, "high") >>],
     [id |-> "in-progress", title |-> "In Progress", icon |-> "o2",
      tasks |-> << Task(<<4>>, <<"B", " ", "U", " ", "c">>, "urgent") >>],
     [id |-> "done", title |-> "Done", icon |-> "o3",
      tasks |-> << Task(<<5>>, <<"S", " ", "u", " ", "p", " ", "r">>, "medium") >>] >>

\* An empty Record<string, string>.
EmptyRecord == [c \in {} |-> <<>>]

Init ==
  /\ columns = initialColumns
  /\ draggedTask = None
  /\ newTaskInputs = EmptyRecord
  /\ showInputFor = None
  /\ selectedTaskId = None
  /\ now = ClockStart
  /\ steps = 0
  /\ lastEvent = "load"
  /\ dropped = None
  /\ deleted = {}

-----------------------------------------------------------------------------
(* Handlers *)

\* handleDragStart
HandleDragStart(task, sourceColumnId) ==
  /\ draggedTask' = Some([task |-> task, sourceColumnId |-> sourceColumnId])
  /\ UNCHANGED <<columns, newTaskInputs, showInputFor, selectedTaskId, now>>

\* Mutant of DropColumns: the task stays in the source column (a copy).
DropColumnsCopy(prev, task, sourceColumnId, targetColumnId) ==
  LET F(col) == IF col.id = targetColumnId
                THEN WithTasks(col, col.tasks \o <<task>>)
                ELSE col
  IN [i \in 1..Len(prev) |-> F(prev[i])]

\* The updater handleDrop passes to setColumns.
DropColumns(prev, task, sourceColumnId, targetColumnId) ==
  LET F(col) == IF col.id = sourceColumnId
                THEN WithTasks(col, FilterOutId(col.tasks, task.id))
                ELSE IF col.id = targetColumnId
                     THEN WithTasks(col, col.tasks \o <<task>>)
                     ELSE col
  IN [i \in 1..Len(prev) |-> F(prev[i])]

\* Mutant of HandleDrop: no test of the source column against the target.
HandleDropMove(targetColumnId) ==
  /\ IF draggedTask = None
     THEN UNCHANGED <<columns, draggedTask>>
     ELSE /\ columns' = DropColumns(columns, draggedTask[1].task,
                                    draggedTask[1].sourceColumnId,
                                    targetColumnId)
          /\ draggedTask' = None
  /\ UNCHANGED <<newTaskInputs, showInputFor, selectedTaskId, now>>

\* handleDrop
HandleDrop(targetColumnId) ==
  /\ IF draggedTask = None
     THEN UNCHANGED <<columns, draggedTask>>
     ELSE LET task == draggedTask[1].task
              sourceColumnId == draggedTask[1].sourceColumnId
          IN IF sourceColumnId = targetColumnId
             THEN /\ draggedTask' = None
                  /\ UNCHANGED columns
             ELSE /\ columns' = DropColumns(columns, task, sourceColumnId,
                                            targetColumnId)
                  /\ draggedTask' = None
  /\ UNCHANGED <<newTaskInputs, showInputFor, selectedTaskId, now>>

\* Mutant of DraftTitle: the draft is not trimmed.
DraftTitleRaw(inputs, columnId) ==
  IF columnId \in DOMAIN inputs THEN Some(inputs[columnId]) ELSE None

\* newTaskInputs[columnId]?.trim(): <<>> (undefined) or <<the trimmed text>>.
DraftTitle(inputs, columnId) ==
  IF columnId \in DOMAIN inputs THEN Some(Trim(inputs[columnId])) ELSE None

\* Mutant of Falsy: only undefined is rejected.
FalsyUndefined(title) == title = None

\* !title: undefined and the empty string are falsy.
Falsy(title) == title = None \/ title[1] = <<>>

\* Mutant of NewTask: another default priority.
NewTaskLow(timestamp, title) ==
  [id |-> NumberToString(timestamp), title |-> title, priority |-> "low"]

\* The task addTask builds.
NewTask(timestamp, title) ==
  [id |-> NumberToString(timestamp), title |-> title, priority |-> "medium"]

\* Mutant of AddColumns: the new task is put first.
AddColumnsFirst(prev, columnId, newTask) ==
  LET F(col) == IF col.id = columnId
                THEN WithTasks(col, <<newTask>> \o col.tasks)
                ELSE col
  IN [i \in 1..Len(prev) |-> F(prev[i])]

\* The updater addTask passes to setColumns.
AddColumns(prev, columnId, newTask) ==
  LET F(col) == IF col.id = columnId
                THEN WithTasks(col, col.tasks \o <<newTask>>)
                ELSE col
  IN [i \in 1..Len(prev) |-> F(prev[i])]

\* Mutant of SetInput: every draft is set.
SetInputAll(prev, columnId, value) ==
  [c \in DOMAIN prev \cup {columnId} |-> value]

\* { ...prev, [columnId]: value }
SetInput(prev, columnId, value) ==
  [c \in DOMAIN prev \cup {columnId} |-> IF c = columnId THEN value ELSE prev[c]]

\* addTask; timestamp is what Date.now() returns.
AddTask(columnId, timestamp) ==
  /\ LET title == DraftTitle(newTaskInputs, columnId)
     IN IF Falsy(title)
        THEN UNCHANGED <<columns, newTaskInputs, showInputFor, now>>
        ELSE /\ now' = timestamp
             /\ columns' = AddColumns(columns, columnId,
                                      NewTask(timestamp, title[1]))
             /\ newTaskInputs' = SetInput(newTaskInputs, columnId, <<>>)
             /\ showInputFor' = None
  /\ UNCHANGED <<draggedTask, selectedTaskId>>

\* Mutant of DeleteTask: the filter is applied to the columns, not to the
\* tasks of the column.
DeleteTaskColumn(columnId, taskId) ==
  /\ columns' = SelectSeq(columns, LAMBDA col : col.id # columnId)
  /\ UNCHANGED <<draggedTask, newTaskInputs, showInputFor, selectedTaskId, now>>

\* Mutant of DeleteColumns: the task is removed from every column.
DeleteColumnsAll(prev, columnId, taskId) ==
  LET F(col) == WithTasks(col, FilterOutId(col.tasks, taskId))
  IN [i \in 1..Len(prev) |-> F(prev[i])]

\* The updater deleteTask passes to setColumns.
DeleteColumns(prev, columnId, taskId) ==
  LET F(col) == IF col.id = columnId
                THEN WithTasks(col, FilterOutId(col.tasks, taskId))
                ELSE col
  IN [i \in 1..Len(prev) |-> F(prev[i])]

\* deleteTask
DeleteTask(columnId, taskId) ==
  /\ columns' = DeleteColumns(columns, columnId, taskId)
  /\ UNCHANGED <<draggedTask, newTaskInputs, showInputFor, selectedTaskId, now>>

\* Mutant of TargetIndex: the directions are exchanged.
TargetIndexExchanged(cols, sourceColumnId, direction) ==
  LET columnIndex == FindColumnIndex(cols, sourceColumnId)
  IN IF direction = "left" THEN columnIndex + 1 ELSE columnIndex - 1

\* The index moveTaskWithKeyboard moves to (0-based).
TargetIndex(cols, sourceColumnId, direction) ==
  LET columnIndex == FindColumnIndex(cols, sourceColumnId)
  IN IF direction = "left" THEN columnIndex - 1 ELSE columnIndex + 1

\* Mutant of KeyboardColumns: the task is put first in the target column.
KeyboardColumnsFirst(prev, task, sourceColumnId, targetColumnId) ==
  LET F(col) == IF col.id = sourceColumnId
                THEN WithTasks(col, FilterOutId(col.tasks, task.id))
                ELSE IF col.id = targetColumnId
                     THEN WithTasks(col, <<task>> \o col.tasks)
                     ELSE col
  IN [i \in 1..Len(prev) |-> F(prev[i])]

\* The updater moveTaskWithKeyboard passes to setColumns.
KeyboardColumns(prev, task, sourceColumnId, targetColumnId) ==
  LET F(col) == IF col.id = sourceColumnId
                THEN WithTasks(col, FilterOutId(col.tasks, task.id))
                ELSE IF col.id = targetColumnId
                     THEN WithTasks(col, col.tasks \o <<task>>)
                     ELSE col
  IN [i \in 1..Len(prev) |-> F(prev[i])]

\* Mutant of MoveTaskWithKeyboard: a move by keyboard ends the drag.
MoveTaskWithKeyboardEndsDrag(task, sourceColumnId, direction) ==
  /\ LET targetIndex == TargetIndex(columns, sourceColumnId, direction)
     IN IF targetIndex < 0 \/ targetIndex >= Len(columns)
        THEN UNCHANGED columns
        ELSE columns' = KeyboardColumns(columns, task, sourceColumnId,
                                        columns[targetIndex + 1].id)
  /\ draggedTask' = None
  /\ UNCHANGED <<newTaskInputs, showInputFor, selectedTaskId, now>>

\* moveTaskWithKeyboard
MoveTaskWithKeyboard(task, sourceColumnId, direction) ==
  /\ LET targetIndex == TargetIndex(columns, sourceColumnId, direction)
     IN IF targetIndex < 0 \/ targetIndex >= Len(columns)
        THEN UNCHANGED columns
        ELSE columns' = KeyboardColumns(columns, task, sourceColumnId,
                                        columns[targetIndex + 1].id)
  /\ UNCHANGED <<draggedTask, newTaskInputs, showInputFor, selectedTaskId, now>>

\* Mutant of OpenTask: opening the selected task deselects it.
OpenTaskToggle(task) ==
  /\ selectedTaskId' = IF selectedTaskId = Some(task.id)
                       THEN None
                       ELSE Some(task.id)
  /\ UNCHANGED <<columns, draggedTask, newTaskInputs, showInputFor, now>>

\* Opening a task: click on the card, or Enter or Space on it.
OpenTask(task) ==
  /\ selectedTaskId' = Some(task.id)
  /\ UNCHANGED <<columns, draggedTask, newTaskInputs, showInputFor, now>>

\* onChange of a column's input.
InputChange(columnId, value) ==
  /\ newTaskInputs' = SetInput(newTaskInputs, columnId, value)
  /\ UNCHANGED <<columns, draggedTask, showInputFor, selectedTaskId, now>>

\* onKeyDown of a column's input, key Escape.
InputEscape(columnId) ==
  /\ showInputFor' = None
  /\ UNCHANGED <<columns, draggedTask, newTaskInputs, selectedTaskId, now>>

\* Mutant of InputBlur: the input is hidden whatever the draft.
InputBlurHide(columnId) ==
  /\ showInputFor' = None
  /\ UNCHANGED <<columns, draggedTask, newTaskInputs, selectedTaskId, now>>

\* onBlur of a column's input.
InputBlur(columnId) ==
  /\ IF Falsy(DraftTitle(newTaskInputs, columnId))
     THEN showInputFor' = None
     ELSE UNCHANGED showInputFor
  /\ UNCHANGED <<columns, draggedTask, newTaskInputs, selectedTaskId, now>>

\* Mutant of AddIssueClick: the drafts are reset when an input is revealed.
AddIssueClickReset(columnId) ==
  /\ showInputFor' = Some(columnId)
  /\ newTaskInputs' = EmptyRecord
  /\ UNCHANGED <<columns, draggedTask, selectedTaskId, now>>

\* onClick of a column's "Add issue" button.
AddIssueClick(columnId) ==
  /\ showInputFor' = Some(columnId)
  /\ UNCHANGED <<columns, draggedTask, newTaskInputs, selectedTaskId, now>>

-----------------------------------------------------------------------------
(* The events the rendered page delivers *)

\* The values Date.now() may return: the clock does not run backwards.
ClockValues == now..(ClockStart + MaxElapsed)

\* The cards on the page: <<column, task>>, one per rendered article.
Cards ==
  UNION { { <<columns[i].id, columns[i].tasks[j]>> :
              j \in 1..Len(columns[i].tasks) } : i \in 1..Len(columns) }

RenderedColumnIds == { columns[i].id : i \in 1..Len(columns) }

DragStart == \E card \in Cards : HandleDragStart(card[2], card[1])

\* A section takes every drop (handleDragOver): also one whose drag did not
\* start on a card, or that follows other events.  No handler clears the
\* payload when a drag ends without a drop on a column.
Drop == \E c \in RenderedColumnIds : HandleDrop(c)

DeleteClick == \E card \in Cards : DeleteTask(card[1], card[2].id)

ArrowKey ==
  \E card \in Cards, direction \in {"left", "right"} :
    MoveTaskWithKeyboard(card[2], card[1], direction)

Open == \E card \in Cards : OpenTask(card[2])

\* The input of a column is rendered while showInputFor names the column.
Change ==
  \E c \in RenderedColumnIds, value \in DraftTexts :
    showInputFor = Some(c) /\ InputChange(c, value)

Enter ==
  \E c \in RenderedColumnIds, timestamp \in ClockValues :
    showInputFor = Some(c) /\ AddTask(c, timestamp)

Escape == \E c \in RenderedColumnIds : showInputFor = Some(c) /\ InputEscape(c)

Blur == \E c \in RenderedColumnIds : showInputFor = Some(c) /\ InputBlur(c)

\* The button of a column is rendered while its input is not.
Reveal == \E c \in RenderedColumnIds : showInputFor # Some(c) /\ AddIssueClick(c)

\* The ids on a board.
BoardIds(cols) ==
  UNION { { cols[i].tasks[j].id : j \in 1..Len(cols[i].tasks) } :
            i \in 1..Len(cols) }

\* The value the input of a column shows: newTaskInputs[column.id] || "".
InputValue(inputs, columnId) ==
  IF columnId \in DOMAIN inputs THEN inputs[columnId] ELSE <<>>

\* The columns whose input is rendered, the others render the button.
EditingColumns == { c \in RenderedColumnIds : showInputFor = Some(c) }

\* One more event e, of at most bound; written after the event, for the
\* columns it leaves.
Step(bound, e) ==
  /\ steps < bound
  /\ steps' = steps + 1
  /\ lastEvent' = e
  /\ dropped' = IF e = "Drop" THEN draggedTask ELSE None
  /\ deleted' = IF e \in {"DeleteClick", "DeleteCall"}
                THEN deleted \cup (BoardIds(columns) \ BoardIds(columns'))
                ELSE deleted

Next ==
  \/ DragStart /\ Step(MaxSteps, "DragStart")
  \/ Drop /\ Step(MaxSteps, "Drop")
  \/ DeleteClick /\ Step(MaxSteps, "DeleteClick")
  \/ ArrowKey /\ Step(MaxSteps, "ArrowKey")
  \/ Open /\ Step(MaxSteps, "Open")
  \/ Change /\ Step(MaxSteps, "Change")
  \/ Enter /\ Step(MaxSteps, "Enter")
  \/ Escape /\ Step(MaxSteps, "Escape")
  \/ Blur /\ Step(MaxSteps, "Blur")
  \/ Reveal /\ Step(MaxSteps, "Reveal")

Spec == Init /\ [][Next]_vars

\* The events of the add-task form and the deletion of cards, to a greater
\* depth.
NextForm ==
  \/ Reveal /\ Step(MaxFormSteps, "Reveal")
  \/ Change /\ Step(MaxFormSteps, "Change")
  \/ Enter /\ Step(MaxFormSteps, "Enter")
  \/ Escape /\ Step(MaxFormSteps, "Escape")
  \/ Blur /\ Step(MaxFormSteps, "Blur")
  \/ DeleteClick /\ Step(MaxFormSteps, "DeleteClick")

SpecForm == Init /\ [][NextForm]_vars

\* The column ids and task ids a caller may pass to a handler: those of the
\* page, a column id that names no column, a task id no task has.
AnyColumnIds == RenderedColumnIds \cup {"archive"}

AnyTaskIds ==
  { card[2].id : card \in Cards } \cup { <<3>>, <<9>> }

\* deleteTask called with any arguments.
DeleteCall == \E c \in AnyColumnIds, id \in AnyTaskIds : DeleteTask(c, id)

\* moveTaskWithKeyboard called with a task of the board, any column id and
\* either direction.
KeyboardCall ==
  \E card \in Cards, c \in AnyColumnIds, direction \in {"left", "right"} :
    MoveTaskWithKeyboard(card[2], c, direction)

\* deleteTask called with any arguments, besides the events of the page that
\* change the board, the payload or the drafts.
NextHandlers ==
  \/ DragStart /\ Step(MaxHandlerSteps, "DragStart")
  \/ Drop /\ Step(MaxHandlerSteps, "Drop")
  \/ ArrowKey /\ Step(MaxHandlerSteps, "ArrowKey")
  \/ Change /\ Step(MaxHandlerSteps, "Change")
  \/ Enter /\ Step(MaxHandlerSteps, "Enter")
  \/ Reveal /\ Step(MaxHandlerSteps, "Reveal")
  \/ DeleteCall /\ Step(MaxHandlerSteps, "DeleteCall")

SpecHandlers == Init /\ [][NextHandlers]_vars

\* moveTaskWithKeyboard called with any arguments, besides the deletion of
\* cards.
NextKeyboard ==
  \/ KeyboardCall /\ Step(MaxKeyboardSteps, "KeyboardCall")
  \/ DeleteClick /\ Step(MaxKeyboardSteps, "DeleteClick")

SpecKeyboard == Init /\ [][NextKeyboard]_vars

-----------------------------------------------------------------------------
(* Vocabulary of the properties *)

\* The fixed order of the columns.
ColumnOrder == <<"backlog", "todo", "in-progress", "done">>

\* The positions <<column index, task index>> of a board.
Positions(cols) ==
  UNION { { <<i, j>> : j \in 1..Len(cols[i].tasks) } : i \in 1..Len(cols) }

TaskAt(cols, p) == cols[p[1]].tasks[p[2]]

IdsOn(cols) == { TaskAt(cols, p).id : p \in Positions(cols) }

\* How many tasks of a board have the id.
IdCount(cols, id) ==
  Cardinality({ p \in Positions(cols) : TaskAt(cols, p).id = id })

TotalCount(cols) == Cardinality(Positions(cols))

\* The task sequence of the column named c, <<>> when no column is.
TasksOf(cols, c) ==
  IF \E i \in 1..Len(cols) : cols[i].id = c
  THEN cols[CHOOSE i \in 1..Len(cols) : cols[i].id = c].tasks
  ELSE <<>>

IdsOf(cols, c) == [j \in 1..Len(TasksOf(cols, c)) |-> TasksOf(cols, c)[j].id]

\* s without the tasks of the id.
Without(s, id) == LET Other(t) == t.id # id IN SelectSeq(s, Other)

\* Every column but those named in cs is as it was.
OthersUnchanged(cs) ==
  /\ Len(columns') = Len(columns)
  /\ \A i \in 1..Len(columns) :
       /\ columns'[i].id = columns[i].id
       /\ columns[i].id \notin cs => columns'[i] = columns[i]

SameMultiset ==
  \A id \in IdsOn(columns) \cup IdsOn(columns') :
    IdCount(columns', id) = IdCount(columns, id)

-----------------------------------------------------------------------------
(* C1 *)

\* C1: in every reachable state no task id appears in more than one
\* column's task sequence.
UniqueIds ==
  \A i, j \in 1..Len(columns) :
    i # j =>
      { columns[i].tasks[k].id : k \in 1..Len(columns[i].tasks) }
        \cap { columns[j].tasks[k].id : k \in 1..Len(columns[j].tasks) } = {}

-----------------------------------------------------------------------------
(* C2 *)

ConservationStep ==
  /\ \A c \in RenderedColumnIds :
       (lastEvent' = "Drop" /\ HandleDrop(c)) => SameMultiset
  /\ \A card \in Cards, direction \in {"left", "right"} :
       ( /\ lastEvent' = "ArrowKey"
         /\ MoveTaskWithKeyboard(card[2], card[1], direction) ) => SameMultiset
  /\ \A card \in Cards :
       (lastEvent' = "DeleteClick" /\ DeleteTask(card[1], card[2].id)) =>
         \A id \in IdsOn(columns) :
           IdCount(columns', id) =
             IF id = card[2].id THEN IdCount(columns, id) - 1
             ELSE IdCount(columns, id)
  /\ \A c \in RenderedColumnIds, timestamp \in ClockValues :
       (lastEvent' = "Enter" /\ AddTask(c, timestamp) /\ columns' # columns) =>
         /\ TotalCount(columns') = TotalCount(columns) + 1
         /\ \A id \in IdsOn(columns) :
              IdCount(columns', id) >= IdCount(columns, id)

\* C2: every operation changes the multiset of task ids on the board only by
\* the ids it adds or removes: a drop and a keyboard-move leave it as it is,
\* a delete-task removes the one named task, a successful add-task adds one.
Conservation == [][ConservationStep]_vars

-----------------------------------------------------------------------------
(* C3 *)

\* C3: after a drop on a column other than the payload's source column, the
\* dragged task's id appears exactly once on the board.
DropPostcondition ==
  [][\A c \in RenderedColumnIds :
       ( /\ lastEvent' = "Drop"
         /\ draggedTask # None
         /\ draggedTask[1].sourceColumnId # c
         /\ HandleDrop(c) )
       => IdCount(columns', draggedTask[1].task.id) = 1]_vars

-----------------------------------------------------------------------------
(* C4 *)

DropEffectStep(c) ==
  LET task == draggedTask[1].task
      source == draggedTask[1].sourceColumnId
  IN /\ OthersUnchanged({source, c})
     /\ TasksOf(columns', source) = Without(TasksOf(columns, source), task.id)
     /\ TasksOf(columns', c) = Append(TasksOf(columns, c), task)
     /\ draggedTask' = None
     /\ ( columns = initialColumns /\ task.id = <<3>> /\ source = "todo"
          /\ c = "in-progress" )
        => /\ IdsOf(columns', "todo") = <<>>
           /\ IdsOf(columns', "in-progress") = << <<4>>, <<3>> >>

\* C4: a drop on a column other than the payload's source column removes the
\* task of the payload's id from the source column, appends the payload's
\* task to the target column, leaves every other column as it is and clears
\* the payload; from the seeded board, task 3 dragged from todo to
\* in-progress gives todo = [] and in-progress = [4, 3].
DropEffect ==
  [][\A c \in RenderedColumnIds :
       ( /\ lastEvent' = "Drop"
         /\ draggedTask # None
         /\ draggedTask[1].sourceColumnId # c
         /\ HandleDrop(c) )
       => DropEffectStep(c)]_vars

\* Task 1 dragged from backlog and dropped on done.
DropEffectWitness ==
  /\ lastEvent = "Drop"
  /\ steps = 2
  /\ draggedTask = None
  /\ IdsOf(columns, "backlog") = << <<2>> >>
  /\ IdsOf(columns, "done") = << <<5>>, <<1>> >>

-----------------------------------------------------------------------------
(* C5 *)

\* The column next to c in the direction, <<>> when there is none.
Adjacent(c, direction) ==
  LET k == CHOOSE i \in 1..Len(ColumnOrder) : ColumnOrder[i] = c
      n == IF direction = "left" THEN k - 1 ELSE k + 1
  IN IF n \in 1..Len(ColumnOrder) THEN Some(ColumnOrder[n]) ELSE None

\* The board after start-drag(task, c) and then drop on target.
DragThenDrop(cols, task, c, target) ==
  IF c = target THEN cols ELSE DropColumns(cols, task, c, target)

\* C5: a keyboard-move of a card towards an existing adjacent column gives
\* the board that a start-drag of the card followed by a drop on that column
\* gives.
KeyboardEquivalence ==
  [][\A card \in Cards, direction \in {"left", "right"} :
       ( /\ lastEvent' = "ArrowKey"
         /\ Adjacent(card[1], direction) # None
         /\ MoveTaskWithKeyboard(card[2], card[1], direction) )
       => columns' = DragThenDrop(columns, card[2], card[1],
                                  Adjacent(card[1], direction)[1])]_vars

\* Task 3 moved right from todo with the keyboard.
KeyboardEquivalenceWitness ==
  /\ lastEvent = "ArrowKey"
  /\ steps = 1
  /\ IdsOf(columns, "todo") = <<>>
  /\ IdsOf(columns, "in-progress") = << <<4>>, <<3>> >>

-----------------------------------------------------------------------------
(* C6 *)

\* The draft of column c holds a character that is not whitespace.
HasText(inputs, c) ==
  /\ c \in DOMAIN inputs
  /\ \E k \in 1..Len(inputs[c]) : inputs[c][k] \notin WhiteSpace

Last(s) == s[Len(s)]

\* C6: after a successful add-task the new task's id is non-empty and is the
\* id of no task that was on the board before the add.
FreshIds ==
  [][\A c \in RenderedColumnIds, timestamp \in ClockValues :
       (lastEvent' = "Enter" /\ HasText(newTaskInputs, c) /\ AddTask(c, timestamp))
       => /\ Last(TasksOf(columns', c)).id # <<>>
          /\ Last(TasksOf(columns', c)).id \notin IdsOn(columns)]_vars

-----------------------------------------------------------------------------
(* C7 *)

\* title is draft without the whitespace at its two ends, and is not empty.
TrimmedOf(title, draft) ==
  /\ title # <<>>
  /\ title[1] \notin WhiteSpace
  /\ title[Len(title)] \notin WhiteSpace
  /\ \E a \in 0..(Len(draft) - Len(title)) :
       /\ SubSeq(draft, a + 1, a + Len(title)) = title
       /\ \A k \in 1..a : draft[k] \in WhiteSpace
       /\ \A k \in (a + Len(title) + 1)..Len(draft) : draft[k] \in WhiteSpace

\* C7: an add-task on a column whose draft is non-empty after trimming
\* appends exactly one task to the column, whose title is the trimmed draft
\* and whose priority is medium, and leaves every other column as it is.
AddPlacement ==
  [][\A c \in RenderedColumnIds, timestamp \in ClockValues :
       (lastEvent' = "Enter" /\ HasText(newTaskInputs, c) /\ AddTask(c, timestamp))
       => /\ Len(TasksOf(columns', c)) = Len(TasksOf(columns, c)) + 1
          /\ SubSeq(TasksOf(columns', c), 1, Len(TasksOf(columns, c)))
               = TasksOf(columns, c)
          /\ TrimmedOf(Last(TasksOf(columns', c)).title, newTaskInputs[c])
          /\ Last(TasksOf(columns', c)).priority = "medium"
          /\ OthersUnchanged({c})]_vars

\* A task with a title typed with whitespace around it or in it was added to
\* todo.
AddPlacementWitness ==
  /\ lastEvent = "Enter"
  /\ steps = 3
  /\ Len(TasksOf(columns, "todo")) = 2
  /\ Last(TasksOf(columns, "todo")).title \in { <<"a">>, <<"a", " ", "b">> }
  /\ Last(TasksOf(columns, "todo")).priority = "medium"

-----------------------------------------------------------------------------
(* C8 *)

\* C8: after a successful add-task on a column the draft of the column is
\* empty and its input is hidden, and the drafts of the other columns are as
\* they were.
AddInputReset ==
  [][\A c \in RenderedColumnIds, timestamp \in ClockValues :
       (lastEvent' = "Enter" /\ HasText(newTaskInputs, c) /\ AddTask(c, timestamp))
       => /\ c \in DOMAIN newTaskInputs'
          /\ newTaskInputs'[c] = <<>>
          /\ showInputFor' # Some(c)
          /\ \A d \in RenderedColumnIds \ {c} :
               /\ d \in DOMAIN newTaskInputs' <=> d \in DOMAIN newTaskInputs
               /\ d \in DOMAIN newTaskInputs
                    => newTaskInputs'[d] = newTaskInputs[d]]_vars

\* A task was added to one column while another column held a draft.
AddInputResetWitness ==
  /\ lastEvent = "Enter"
  /\ steps = 5
  /\ TotalCount(columns) = TotalCount(initialColumns) + 1
  /\ showInputFor = None
  /\ \E c, d \in RenderedColumnIds :
       /\ c # d
       /\ c \in DOMAIN newTaskInputs /\ newTaskInputs[c] = <<>>
       /\ HasText(newTaskInputs, d)

-----------------------------------------------------------------------------
(* C9 *)

\* C9: an add-task on a column whose draft is missing, empty or only
\* whitespace changes nothing: the columns, the drafts, the visible input,
\* the drag payload and the selection are as they were.
WhitespaceRejection ==
  [][\A c \in RenderedColumnIds, timestamp \in ClockValues :
       (lastEvent' = "Enter" /\ ~HasText(newTaskInputs, c) /\ AddTask(c, timestamp))
       => state' = state]_vars

\* Enter was pressed in the input of todo on a draft of one space.
WhitespaceRejectionWitness ==
  /\ lastEvent = "Enter"
  /\ showInputFor = Some("todo")
  /\ "todo" \in DOMAIN newTaskInputs
  /\ newTaskInputs["todo"] = <<" ">>
  /\ columns = initialColumns

-----------------------------------------------------------------------------
(* C10 *)

\* C10: delete-task removes the tasks of the id from the named column and
\* leaves every other column as it is; when the named column holds no task
\* of the id, or no column is named, the board is as it was.
DeleteScoped ==
  [][\A c \in AnyColumnIds, id \in AnyTaskIds :
       (lastEvent' = "DeleteCall" /\ DeleteTask(c, id))
       => /\ OthersUnchanged({c})
          /\ TasksOf(columns', c) = Without(TasksOf(columns, c), id)
          /\ (\A j \in 1..Len(TasksOf(columns, c)) :
                TasksOf(columns, c)[j].id # id) => columns' = columns]_vars

\* Task 3 was deleted from todo.
DeleteScopedWitness ==
  /\ lastEvent = "DeleteCall"
  /\ steps = 1
  /\ IdsOf(columns, "todo") = <<>>
  /\ IdsOf(columns, "backlog") = << <<1>>, <<2>> >>
  /\ IdsOf(columns, "in-progress") = << <<4>> >>
  /\ IdsOf(columns, "done") = << <<5>> >>

-----------------------------------------------------------------------------
(* C11 *)

\* C11: a drop on the payload's own source column leaves every column as it
\* is, also when the payload's task is no longer in that column, and changes
\* nothing of the state but the payload, which becomes none.
SameColumnDrop ==
  [][\A c \in RenderedColumnIds :
       ( /\ lastEvent' = "Drop"
         /\ draggedTask # None
         /\ draggedTask[1].sourceColumnId = c
         /\ HandleDrop(c) )
       => /\ columns' = columns
          /\ draggedTask' = None
          /\ UNCHANGED <<newTaskInputs, showInputFor, selectedTaskId>>]_vars

\* Task 3 was dragged from todo, moved to in-progress with the keyboard, and
\* the drag was dropped on todo: a drop on any other column would have put
\* task 3 there.
SameColumnDropWitness ==
  /\ lastEvent = "Drop"
  /\ dropped # None
  /\ dropped[1].sourceColumnId = "todo"
  /\ dropped[1].task.id = <<3>>
  /\ draggedTask = None
  /\ IdsOf(columns, "backlog") = << <<1>>, <<2>> >>
  /\ IdsOf(columns, "todo") = <<>>
  /\ IdsOf(columns, "in-progress") = << <<4>>, <<3>> >>
  /\ IdsOf(columns, "done") = << <<5>> >>

-----------------------------------------------------------------------------
(* C12 *)

\* The ids of the columns that hold a task of the id.
ColumnsOf(cols, id) ==
  { cols[i].id : i \in { p[1] : p \in { q \in Positions(cols) :
                                          TaskAt(cols, q).id = id } } }

\* C12: a keyboard-move of a card left from backlog or right from done
\* leaves the board as it is; any other keyboard-move puts the task last in
\* the column before (left) or after (right) its source column in the order
\* backlog, todo, in-progress, done, and takes it out of the source column.
KeyboardBoundary ==
  [][\A card \in Cards, direction \in {"left", "right"} :
       ( /\ lastEvent' = "ArrowKey"
         /\ MoveTaskWithKeyboard(card[2], card[1], direction) )
       => IF Adjacent(card[1], direction) = None
          THEN columns' = columns
          ELSE /\ Last(TasksOf(columns', Adjacent(card[1], direction)[1]))
                    = card[2]
               /\ card[1] \notin ColumnsOf(columns', card[2].id)
               /\ ColumnsOf(columns', card[2].id)
                    \subseteq (ColumnsOf(columns, card[2].id) \ {card[1]})
                                \cup {Adjacent(card[1], direction)[1]}]_vars

\* An arrow key was pressed that left the seeded board as it is: left on a
\* card of backlog or right on the card of done.
KeyboardBoundaryWitness ==
  /\ lastEvent = "ArrowKey"
  /\ steps = 1
  /\ columns = initialColumns

-----------------------------------------------------------------------------
(* C13 *)

\* The input of column c is hidden by a successful submit, by Escape, or by
\* a loss of focus on an empty or whitespace-only draft.
HiddenByItsOwnEvent(c) ==
  \/ lastEvent' = "Enter" /\ HasText(newTaskInputs, c)
  \/ lastEvent' = "Escape"
  \/ lastEvent' = "Blur" /\ ~HasText(newTaskInputs, c)

\* C13: the input of a column goes from editing to hidden only by a
\* successful submit, Escape, or a loss of focus on an empty or
\* whitespace-only draft, on that column.
HideOnlyByThree ==
  [][\A c \in RenderedColumnIds :
       (c \in EditingColumns /\ c \notin EditingColumns')
       => HiddenByItsOwnEvent(c)]_vars

\* C13, amended: ... or by the reveal action on another column.
HideOnlyByFour ==
  [][\A c \in RenderedColumnIds :
       (c \in EditingColumns /\ c \notin EditingColumns')
       => \/ HiddenByItsOwnEvent(c)
          \/ /\ lastEvent' = "Reveal"
             /\ \E d \in RenderedColumnIds \ {c} : EditingColumns' = {d}]_vars

\* The input of backlog was revealed, a draft typed, and the input of todo
\* revealed.
HideOnlyWitness ==
  /\ lastEvent = "Reveal"
  /\ steps = 3
  /\ EditingColumns = {"todo"}
  /\ HasText(newTaskInputs, "backlog")

-----------------------------------------------------------------------------
(* C14 *)

\* C14: Escape in the input of a column hides the input and discards the
\* draft of the column: the input shows an empty text when it is revealed
\* again.
EscapeDiscards ==
  [][\A c \in RenderedColumnIds :
       (lastEvent' = "Escape" /\ c \in EditingColumns /\ InputEscape(c))
       => /\ c \notin EditingColumns'
          /\ InputValue(newTaskInputs', c) = <<>>]_vars

-----------------------------------------------------------------------------
(* C15 *)

\* C15: when the input of a column loses focus, it stays in editing with its
\* draft unchanged if the draft holds text that is not whitespace, and is
\* hidden otherwise.
BlurKeeps ==
  [][\A c \in RenderedColumnIds :
       (lastEvent' = "Blur" /\ c \in EditingColumns /\ InputBlur(c))
       => IF HasText(newTaskInputs, c)
          THEN /\ c \in EditingColumns'
               /\ newTaskInputs' = newTaskInputs
          ELSE EditingColumns' = {}]_vars

\* The input of todo lost focus on a draft with text and is still rendered.
BlurKeepsWitness ==
  /\ lastEvent = "Blur"
  /\ EditingColumns = {"todo"}
  /\ HasText(newTaskInputs, "todo")

-----------------------------------------------------------------------------
(* C16 *)

\* C16: in every reachable state the board is the four columns backlog,
\* todo, in-progress, done, in that order, with the titles and icons they
\* were given: only the task sequences change.
FixedColumns ==
  /\ Len(columns) = Len(ColumnOrder)
  /\ \A i \in 1..Len(columns) :
       /\ columns[i].id = ColumnOrder[i]
       /\ columns[i].title = initialColumns[i].title
       /\ columns[i].icon = initialColumns[i].icon

\* The only card of todo was deleted: the column is empty.
FixedColumnsWitness ==
  /\ lastEvent = "DeleteClick"
  /\ steps = 1
  /\ IdsOf(columns, "todo") = <<>>

-----------------------------------------------------------------------------
(* C17 *)

\* C17: no task on the board has an id that a delete-task took off the
\* board.
DeletionPermanent == \A id \in deleted : id \notin IdsOn(columns)

-----------------------------------------------------------------------------
(* C18 *)

\* a is b without some of its elements, in the order of b.
RECURSIVE IsSubseq(_, _)
IsSubseq(a, b) ==
  IF a = <<>> THEN TRUE
  ELSE IF b = <<>> THEN FALSE
       ELSE IF Head(a) = Head(b) THEN IsSubseq(Tail(a), Tail(b))
            ELSE IsSubseq(a, Tail(b))

\* C18: every operation leaves in every column the tasks that stay in the
\* order they had, and puts a task that enters the column after all the
\* tasks of the column.
NoReorder ==
  [][\A i \in 1..Len(columns) :
       \/ IsSubseq(columns'[i].tasks, columns[i].tasks)
       \/ /\ Len(columns'[i].tasks) = Len(columns[i].tasks) + 1
          /\ SubSeq(columns'[i].tasks, 1, Len(columns[i].tasks))
               = columns[i].tasks]_vars

\* A task was added to backlog, after tasks 1 and 2.
NoReorderWitness ==
  /\ lastEvent = "Enter"
  /\ Len(IdsOf(columns, "backlog")) = 3
  /\ SubSeq(IdsOf(columns, "backlog"), 1, 2) = << <<1>>, <<2>> >>

-----------------------------------------------------------------------------
(* C19 *)

\* C19: in every reachable state every task on the board has a title with a
\* character that is not whitespace and one of the four priorities, and
\* every task that is not a seeded one has priority medium.
WellFormedTasks ==
  \A p \in Positions(columns) :
    LET t == TaskAt(columns, p)
    IN /\ \E k \in 1..Len(t.title) : t.title[k] \notin WhiteSpace
       /\ t.priority \in {"urgent", "high", "medium", "low"}
       /\ t.id \notin IdsOn(initialColumns) => t.priority = "medium"

\* A task typed as "a b" was added to done.
WellFormedTasksWitness ==
  /\ lastEvent = "Enter"
  /\ Len(TasksOf(columns, "done")) = 2
  /\ Last(TasksOf(columns, "done")).id \notin IdsOn(initialColumns)
  /\ Last(TasksOf(columns, "done")).title = <<"a", " ", "b">>

-----------------------------------------------------------------------------
(* C20 *)

\* C20: at most one input is in editing; the reveal action on a column puts
\* its input in editing and every other input in hidden, and leaves the
\* text every input shows when it is revealed as it was.
OneEditing ==
  [][/\ Cardinality(EditingColumns') <= 1
     /\ \A b \in RenderedColumnIds :
          (lastEvent' = "Reveal" /\ b \notin EditingColumns /\ AddIssueClick(b))
          => /\ EditingColumns' = {b}
             /\ \A a \in RenderedColumnIds :
                  InputValue(newTaskInputs', a)
                    = InputValue(newTaskInputs, a)]_vars

\* The input of in-progress was revealed, a draft typed, and the input of
\* done revealed: the draft of in-progress is kept.
OneEditingWitness ==
  /\ lastEvent = "Reveal"
  /\ steps = 3
  /\ EditingColumns = {"done"}
  /\ HasText(newTaskInputs, "in-progress")

-----------------------------------------------------------------------------
(* C21 *)

\* C21: only start-drag sets the drag payload and only drop clears it;
\* add-task, delete-task and keyboard-move leave it as it was, also when
\* they delete or move the task it holds; start-drag records the card and
\* its column and changes nothing else.
PayloadLifetime ==
  [][/\ (draggedTask' # draggedTask /\ draggedTask' # None)
          => lastEvent' = "DragStart"
     /\ (draggedTask' # draggedTask /\ draggedTask' = None)
          => lastEvent' = "Drop"
     /\ lastEvent' \in {"Enter", "DeleteClick", "ArrowKey"}
          => draggedTask' = draggedTask
     /\ \A card \in Cards :
          (lastEvent' = "DragStart" /\ HandleDragStart(card[2], card[1]))
          => /\ draggedTask'
                  = Some([task |-> card[2], sourceColumnId |-> card[1]])
             /\ columns' = columns
             /\ newTaskInputs' = newTaskInputs
             /\ showInputFor' = showInputFor
             /\ selectedTaskId' = selectedTaskId]_vars

\* The task the payload holds was deleted, and the payload still holds it.
PayloadLifetimeWitness ==
  /\ lastEvent = "DeleteClick"
  /\ draggedTask # None
  /\ draggedTask[1].task.id \notin IdsOn(columns)

-----------------------------------------------------------------------------
(* C22 *)

\* C22: only opening a task changes the selection; opening a task makes its
\* id the selected one and leaves the board as it was; drop, keyboard-move,
\* add-task and delete-task leave the selection as it was, also a
\* delete-task of the selected task.
SelectionOnlyByOpen ==
  [][/\ selectedTaskId' # selectedTaskId => lastEvent' = "Open"
     /\ lastEvent' \in {"Drop", "ArrowKey", "Enter", "DeleteClick"}
          => selectedTaskId' = selectedTaskId
     /\ \A card \in Cards :
          (lastEvent' = "Open" /\ OpenTask(card[2]))
          => /\ selectedTaskId' = Some(card[2].id)
             /\ columns' = columns]_vars

\* The selected task was deleted, and its id is still the selected one.
SelectionOnlyByOpenWitness ==
  /\ lastEvent = "DeleteClick"
  /\ selectedTaskId # None
  /\ selectedTaskId[1] \notin IdsOn(columns)

-----------------------------------------------------------------------------
(* C23 *)

\* C23: moveTaskWithKeyboard called with a source column id that names no
\* column leaves the board as it was, to the left and to the right.
KeyboardUnknownSource ==
  [][\A card \in Cards, c \in AnyColumnIds \ RenderedColumnIds,
        direction \in {"left", "right"} :
       (lastEvent' = "KeyboardCall" /\ MoveTaskWithKeyboard(card[2], c, direction))
       => columns' = columns]_vars

====
